---- MODULE Spec2Model ----
(***************************************************************************)
(* Model of the classifier session of image_classifier.py: the cached      *)
(* image list, the cursor, the cached folder list, the undo stack, and the *)
(* part of the filesystem below the working directory that the session     *)
(* reads and writes.                                                       *)
(*                                                                         *)
(* A file name is a sequence of character codes, so that lower(),          *)
(* endswith(), startswith('.'), strip() and the sort of the image list are *)
(* computed as Python computes them.  A path is the sequence of names      *)
(* below work_dir.  The filesystem maps every existing path to a node.     *)
(***************************************************************************)
EXTENDS Integers, Sequences, FiniteSets, TLC

VARIABLES
    fs,             \* existing path -> [kind, id]; id: content of a file, inode of a directory
    ctimeOrder,     \* the directories of work_dir by ascending st_ctime, where it is read
    hasBirthtime,   \* TRUE on hosts whose os.stat result has st_birthtime
    image_files,    \* self.image_files
    current_index,  \* self.current_index
    folders,        \* self.folders
    undo_stack,     \* self.undo_stack: <<current_path, original_path>> pairs
    last,           \* the handler that ran last, its inputs and its outcome
    pre,            \* after a move that succeeded: the session and the filesystem before it
    streak          \* the moves that succeeded in a row, and how many undos followed them

vars == <<fs, ctimeOrder, hasBirthtime, image_files, current_index, folders,
          undo_stack, last, pre, streak>>

\* ------------------------------------------------------------------ names
a_png == <<97, 46, 112, 110, 103>>
b_JPG == <<98, 46, 74, 80, 71>>
c_txt == <<99, 46, 116, 120, 116>>
cats == <<99, 97, 116, 115>>
dogs == <<100, 111, 103, 115>>
dot_git == <<46, 103, 105, 116>>

\* the most directories the filesystem of the model may hold
MaxDirs == 5

\* what the user may have typed into new_folder_entry
EntryTexts == { <<>>, <<32, 9>>, cats, <<32>> \o a_png \o <<9>> }

Decisions == {"overwrite", "skip", "cancel"}

\* ------------------------------------------------------- Python strings
Last(s) == s[Len(s)]

Front(s) == SubSeq(s, 1, Len(s) - 1)

Lower(c) == IF c >= 65 /\ c <= 90 THEN c + 32 ELSE c

LowerStr(s) == [k \in 1..Len(s) |-> Lower(s[k])]

EndsWith(s, suf) ==
    /\ Len(suf) <= Len(s)
    /\ SubSeq(s, Len(s) - Len(suf) + 1, Len(s)) = suf

StartsWith(s, p) ==
    /\ Len(p) <= Len(s)
    /\ SubSeq(s, 1, Len(p)) = p

ImageSuffixes ==
    { <<46, 112, 110, 103>>, <<46, 106, 112, 103>>, <<46, 106, 112, 101, 103>>,
      <<46, 103, 105, 102>>, <<46, 98, 109, 112>> }

IsImageName(f) == \E suf \in ImageSuffixes : EndsWith(LowerStr(f), suf)

Whitespace == {9, 10, 11, 12, 13, 28, 29, 30, 31, 32}

RECURSIVE LStrip(_)
LStrip(s) ==
    IF s # <<>> /\ s[1] \in Whitespace THEN LStrip(Tail(s)) ELSE s

RECURSIVE RStrip(_)
RStrip(s) ==
    IF s # <<>> /\ Last(s) \in Whitespace THEN RStrip(Front(s)) ELSE s

Strip(s) == RStrip(LStrip(s))

\* str.__lt__: code point order, a proper prefix first
StrLess(a, b) ==
    \E k \in 1..Len(b) :
        /\ k <= Len(a) + 1
        /\ SubSeq(a, 1, k - 1) = SubSeq(b, 1, k - 1)
        /\ \/ k = Len(a) + 1
           \/ a[k] < b[k]

RECURSIVE SortedNames(_)
SortedNames(S) ==
    IF S = {} THEN <<>>
    ELSE LET m == CHOOSE x \in S : \A y \in S \ {x} : StrLess(x, y)
         IN  <<m>> \o SortedNames(S \ {m})

\* -------------------------------------------------------- Python lists
\* s[i] with Python's index i, a negative i counting from the end
PyAt(s, i) == IF i >= 0 THEN s[i + 1] ELSE s[Len(s) + i + 1]

\* del s[i] left out
PyDelNothing(s, i) == s

\* del s[i]
PyDel(s, i) ==
    LET k == IF i >= 0 THEN i + 1 ELSE Len(s) + i + 1
    IN  SubSeq(s, 1, k - 1) \o SubSeq(s, k + 1, Len(s))

\* s.index(x), x in s
PyIndex(s, x) == (CHOOSE k \in 1..Len(s) : s[k] = x /\ \A j \in 1..(k - 1) : s[j] # x) - 1

InSeq(x, s) == \E k \in 1..Len(s) : s[k] = x

Min(a, b) == IF a <= b THEN a ELSE b

SeqToSet(s) == {s[k] : k \in 1..Len(s)}

\* ---------------------------------------------------------- filesystem
\* os.path.exists(work_dir/p)
Exists(f, p) == p \in DOMAIN f

\* os.path.isdir(work_dir/p)
IsDir(f, p) == p \in DOMAIN f /\ f[p].kind = "dir"

\* os.listdir(self.work_dir)
ListDir(f) == { p[1] : p \in {q \in DOMAIN f : Len(q) = 1} }

DirIds(f) == { f[p].id : p \in {q \in DOMAIN f : f[q].kind = "dir"} }

NumDirs(f) == Cardinality(DirIds(f))

\* the directory that holds p is there (work_dir itself always is)
ParentOk(f, p) == Len(p) = 1 \/ IsDir(f, Front(p))

\* the directory of work_dir that holds p, if one does
TopParent(p) == IF Len(p) = 2 THEN {p[1]} ELSE {}

\* the directories of work_dir
TopDirs(f) == {n \in ListDir(f) : IsDir(f, <<n>>)}

Perms(T) ==
    { s \in [1..Cardinality(T) -> T] : \A i, j \in 1..Cardinality(T) : s[i] = s[j] => i = j }

\* The orders of st_ctime of the directories of work_dir after one system
\* call left f and set the st_ctime of those in T: they are the newest, and
\* among themselves in any order (equal timestamps are listed in the order
\* of os.listdir, which is arbitrary).  Hosts with st_birthtime never read
\* st_ctime, and the order is not followed there.
Touch(order, f, T, birth) ==
    IF birth THEN {order}
    ELSE { SelectSeq(order, LAMBDA d : d \in TopDirs(f) /\ d \notin T) \o s :
             s \in Perms(T \cap TopDirs(f)) }

\* shutil.move(src, dst) on one filesystem.  os_ok = FALSE is an error of
\* the operating system (permissions, a read-only volume): every attempt
\* of shutil.move raises and nothing is changed.  A directory src whose
\* destination lacks its parent directory would be copied by copytree;
\* CopytreeNotNeeded states that no reachable call is of that kind.
ShutilMove(f, src, dst, os_ok) ==
    LET real_dst == IF IsDir(f, dst) THEN Append(dst, Last(src)) ELSE dst
        ok == /\ os_ok
              /\ src \in DOMAIN f
              /\ ~(IsDir(f, dst) /\ real_dst \in DOMAIN f)
              /\ ParentOk(f, real_dst)
              /\ ~StartsWith(real_dst, src)
              /\ real_dst \in DOMAIN f =>
                    f[src].kind = "file" /\ f[real_dst].kind = "file"
        moved == {p \in DOMAIN f : StartsWith(p, src)}
        dom == (DOMAIN f \ moved) \cup
               { real_dst \o SubSeq(p, Len(src) + 1, Len(p)) : p \in moved }
        g == [p \in dom |->
                IF StartsWith(p, real_dst)
                THEN f[src \o SubSeq(p, Len(real_dst) + 1, Len(p))]
                ELSE f[p]]
        \* rename sets the st_ctime of both parent directories and of src
        touched == TopParent(src) \cup TopParent(real_dst) \cup
                   (IF Len(real_dst) = 1 THEN {real_dst[1]} ELSE {})
    IN  IF ok THEN [ok |-> TRUE, fs |-> g, real_dst |-> real_dst, touched |-> touched]
        ELSE [ok |-> FALSE, fs |-> f, real_dst |-> real_dst, touched |-> {}]

NextDirId(f) == 1 + Cardinality(DirIds(f))

\* os.makedirs(work_dir/p) for a path p of one name that does not exist
Makedirs(f, p) ==
    [q \in DOMAIN f \cup {p} |->
        IF q = p THEN [kind |-> "dir", id |-> NextDirId(f)] ELSE f[q]]

\* ----------------------------------------------------------- the scans
\* load_images: the names of work_dir that carry an image suffix, sorted
LoadImages(f) == SortedNames({n \in ListDir(f) : IsImageName(n)})

RECURSIVE SortedByKey(_, _)
SortedByKey(S, key) ==
    IF S = {} THEN <<>>
    ELSE LET m == CHOOSE x \in S : \A y \in S : key[x] <= key[y]
         IN  <<m>> \o SortedByKey(S \ {m}, key)

Position(order, d) == CHOOSE k \in 1..Len(order) : order[k] = d

\* the timestamp load_folders reads for the directory work_dir/n, as its
\* rank: st_birthtime where the host has it, st_ctime elsewhere
CreateTime(f, order, birth, n) ==
    IF birth THEN f[<<n>>].id ELSE Position(order, n)

\* load_folders: the sub-directories not starting with '.', by that timestamp
LoadFolders(f, order, birth) ==
    LET S == {n \in ListDir(f) : IsDir(f, <<n>>) /\ ~StartsWith(n, <<46>>)}
    IN  SortedByKey(S, [n \in S |-> CreateTime(f, order, birth, n)])

\* ------------------------------------------------------------- session
Snapshot ==
    [fs |-> fs, image_files |-> image_files, current_index |-> current_index,
     folders |-> folders, undo_stack |-> undo_stack]

NoSnapshot ==
    [fs |-> <<>>, image_files |-> <<>>, current_index |-> 0, folders |-> <<>>,
     undo_stack |-> <<>>]

\* no move that succeeded was the last thing done
NoStreak == [moved |-> <<>>, undone |-> 0]

\* the streak after a move of the file `name`, which was the node `node`:
\* it goes on if no undo has been done since its moves
MovedOn(st, name, node) ==
    IF st.undone = 0
    THEN [moved |-> Append(st.moved, [name |-> name, node |-> node]), undone |-> 0]
    ELSE [moved |-> <<[name |-> name, node |-> node]>>, undone |-> 0]

\* the streak after an undo that succeeded: one more of its moves is undone
UndoneOn(st) ==
    IF st.undone < Len(st.moved) THEN [st EXCEPT !.undone = @ + 1] ELSE NoStreak

\* the handler that ran, how it ended, its folder index, the text it read
\* (the entry of the new folder, the name of the image) and the answer to
\* its dialog
Done(op, outcome, index, text, decision) ==
    [op |-> op, outcome |-> outcome, index |-> index, text |-> text,
     decision |-> decision]

\* show_current_image: the file name it displays, <<>> for "no images"
CurrentImage ==
    IF image_files = <<>> THEN <<>> ELSE PyAt(image_files, current_index)

\* The working directory at startup: the images a.png and b.JPG, the text
\* file c.txt, the hidden directory .git, and the folders cats (the older)
\* and dogs.  Both folders already hold something named a.png, cats a file
\* and dogs a directory, so that a move of a.png meets a destination that
\* exists; a move of b.JPG meets none.
InitFs ==
    LET F(i) == [kind |-> "file", id |-> i]
        D(i) == [kind |-> "dir", id |-> i]
    IN  (<<a_png>> :> F(1)) @@ (<<b_JPG>> :> F(2)) @@ (<<c_txt>> :> F(3)) @@
        (<<cats>> :> D(1)) @@ (<<cats, a_png>> :> F(4)) @@
        (<<dogs>> :> D(2)) @@ (<<dogs, a_png>> :> D(3)) @@
        (<<dot_git>> :> D(4))

\* __init__: empty undo stack, then load_images and load_folders
Init ==
    /\ fs = InitFs
    /\ hasBirthtime \in BOOLEAN
    /\ ctimeOrder = IF hasBirthtime THEN <<>> ELSE <<cats, dogs, dot_git>>
    /\ image_files = LoadImages(fs)
    /\ current_index = 0
    /\ folders = LoadFolders(fs, ctimeOrder, hasBirthtime)
    /\ undo_stack = <<>>
    /\ last = Done("init", "started", 0, <<>>, "none")
    /\ pre = NoSnapshot
    /\ streak = NoStreak

\* prev_image: the index after the key press
PrevIndex(images, i) == IF images # <<>> /\ i > 0 THEN i - 1 ELSE i

\* next_image without the check of the last index
NextIndexUnchecked(images, i) == i + 1

\* next_image: the index after the key press
NextIndex(images, i) == IF images # <<>> /\ i < Len(images) - 1 THEN i + 1 ELSE i

PrevImage ==
    /\ pre' = NoSnapshot
    /\ streak' = NoStreak
    /\ current_index' = PrevIndex(image_files, current_index)
    /\ last' = Done("prev", "returned", 0, <<>>, "none")
    /\ UNCHANGED <<fs, ctimeOrder, hasBirthtime, image_files, folders, undo_stack>>

NextImage ==
    /\ pre' = NoSnapshot
    /\ streak' = NoStreak
    /\ current_index' = NextIndex(image_files, current_index)
    /\ last' = Done("next", "returned", 0, <<>>, "none")
    /\ UNCHANGED <<fs, ctimeOrder, hasBirthtime, image_files, folders, undo_stack>>

\* create_folder without the strip()
FolderNameUnstripped(text) == text

\* create_folder: the name of the directory asked for
FolderName(text) == Strip(text)

\* create_folder: the check of os.path.exists(folder_path)
AlreadyExists(f, folder_name) == Exists(f, <<folder_name>>)

\* create_folder, with the text of new_folder_entry; os.makedirs may raise
CreateFolder(text) ==
    LET folder_name == FolderName(text)
        folder_path == <<folder_name>>
    IN  /\ pre' = NoSnapshot
        /\ streak' = NoStreak
        /\ UNCHANGED <<hasBirthtime, image_files, current_index, undo_stack>>
        /\ IF folder_name = <<>>
           THEN /\ last' = Done("create", "validation", 0, text, "none")
                /\ UNCHANGED <<fs, ctimeOrder, folders>>
           ELSE IF AlreadyExists(fs, folder_name)
           THEN /\ last' = Done("create", "exists", 0, text, "none")
                /\ UNCHANGED <<fs, ctimeOrder, folders>>
           ELSE \/ /\ NumDirs(fs) < MaxDirs
                   /\ last' = Done("create", "created", 0, text, "none")
                   /\ fs' = Makedirs(fs, folder_path)
                   /\ ctimeOrder' \in Touch(ctimeOrder, fs', {folder_name}, hasBirthtime)
                   /\ folders' = LoadFolders(fs', ctimeOrder', hasBirthtime)
                \/ /\ last' = Done("create", "fs_error", 0, text, "none")
                   /\ UNCHANGED <<fs, ctimeOrder, folders>>

\* a record that names the folder, not the file moved into it
UndoRecordOfFolder(dst_path, src_path) == <<Front(dst_path), src_path>>

\* move_image_to_folder: the record appended to the undo stack
UndoRecord(dst_path, src_path) == <<dst_path, src_path>>

\* an undo stack that holds the record of the last move only
PushReplaces(stack, record) == <<record>>

\* move_image_to_folder: the stack after self.undo_stack.append(record)
Push(stack, record) == Append(stack, record)

\* move_image_to_folder without the adjustment of the index
AdjustIndexNever(i, n) == i

\* move_image_to_folder: the index after the entry at i was deleted and n are left
AdjustIndex(i, n) == IF i >= n THEN n - 1 ELSE i

\* move_image_to_folder: the image list and the index after the answer
\* "skip", which calls go_to_next_or_finish and returns
AfterSkip(images, i) == [image_files |-> images, current_index |-> i]

\* the answers tested as "if result is False: skip", anything else goes on
AnswerCancelGoesOn(collision, decision) ==
    IF collision /\ decision = "skip" THEN "skip" ELSE "proceed"

\* move_image_to_folder: what follows the check of the destination and the
\* answer to the dialog "file exists" (None cancel, False skip, True overwrite)
Answer(collision, decision) ==
    IF ~collision THEN "proceed"
    ELSE IF decision = "cancel" THEN "return"
    ELSE IF decision = "skip" THEN "skip"
    ELSE "proceed"

\* move_image_to_folder; the dialog is answered only if it is shown, and
\* shutil.move may raise
MoveImageToFolder(folder_index) ==
    /\ UNCHANGED <<hasBirthtime, folders>>
    /\ IF image_files = <<>>
       THEN /\ last' = Done("move", "no_images", folder_index, <<>>, "none")
            /\ pre' = NoSnapshot
            /\ streak' = NoStreak
            /\ UNCHANGED <<fs, ctimeOrder, image_files, current_index, undo_stack>>
       ELSE IF folder_index >= Len(folders)
       THEN /\ last' = Done("move", "invalid_folder", folder_index, <<>>, "none")
            /\ pre' = NoSnapshot
            /\ streak' = NoStreak
            /\ UNCHANGED <<fs, ctimeOrder, image_files, current_index, undo_stack>>
       ELSE LET src_file == PyAt(image_files, current_index)
                src_path == <<src_file>>
                target_folder == folders[folder_index + 1]
                dst_path == <<target_folder, src_file>>
                collision == Exists(fs, dst_path)
                rest == PyDel(image_files, current_index)
                skipped == AfterSkip(image_files, current_index)
            IN  \E decision \in IF collision THEN Decisions ELSE {"none"} :
                IF Answer(collision, decision) = "return"
                THEN /\ last' = Done("move", "cancel", folder_index, src_file, decision)
                     /\ pre' = NoSnapshot
                     /\ streak' = NoStreak
                     /\ UNCHANGED <<fs, ctimeOrder, image_files, current_index,
                                    undo_stack>>
                ELSE IF Answer(collision, decision) = "skip"
                THEN /\ last' = Done("move", "skip", folder_index, src_file, decision)
                     /\ pre' = NoSnapshot
                     /\ streak' = NoStreak
                     /\ image_files' = skipped.image_files
                     /\ current_index' = skipped.current_index
                     /\ UNCHANGED <<fs, ctimeOrder, undo_stack>>
                ELSE \E os_ok \in BOOLEAN :
                     LET m == ShutilMove(fs, src_path, dst_path, os_ok)
                     IN  IF m.ok
                         THEN /\ last' = Done("move", "moved", folder_index, src_file, decision)
                              /\ pre' = Snapshot
                              /\ streak' = MovedOn(streak, src_file, fs[src_path])
                              /\ fs' = m.fs
                              /\ ctimeOrder' \in
                                    Touch(ctimeOrder, m.fs, m.touched, hasBirthtime)
                              /\ undo_stack' =
                                    Push(undo_stack, UndoRecord(dst_path, src_path))
                              /\ image_files' = rest
                              /\ current_index' = AdjustIndex(current_index, Len(rest))
                         ELSE /\ last' = Done("move", "fs_error", folder_index, src_file, decision)
                              /\ pre' = NoSnapshot
                              /\ streak' = NoStreak
                              /\ UNCHANGED <<fs, ctimeOrder, image_files,
                                             current_index, undo_stack>>

\* undo_move: the index after the rescan
RelocateIndex(images, restored_file, old_index) ==
    IF InSeq(restored_file, images)
    THEN PyIndex(images, restored_file)
    ELSE Min(old_index, Len(images) - 1)

\* undo_move reading the top record without removing it
PopKeeps(stack) == stack

\* undo_move emptying the stack
PopClears(stack) == <<>>

\* undo_move: the stack after self.undo_stack.pop()
Pop(stack) == Front(stack)

\* undo_move; shutil.move may raise
UndoMove ==
    /\ pre' = NoSnapshot
    /\ UNCHANGED <<hasBirthtime, folders>>
    /\ IF undo_stack = <<>>
       THEN /\ last' = Done("undo", "nothing", 0, <<>>, "none")
            /\ streak' = NoStreak
            /\ UNCHANGED <<fs, ctimeOrder, image_files, current_index, undo_stack>>
       ELSE \E os_ok \in BOOLEAN :
            LET current_path == Last(undo_stack)[1]
                original_path == Last(undo_stack)[2]
                m == ShutilMove(fs, current_path, original_path, os_ok)
                old_index == current_index
                restored_file == Last(original_path)
            IN  /\ undo_stack' = Pop(undo_stack)
                /\ IF m.ok
                   THEN /\ last' = Done("undo", "restored", 0, restored_file, "none")
                        /\ streak' = UndoneOn(streak)
                        /\ fs' = m.fs
                        /\ ctimeOrder' \in Touch(ctimeOrder, m.fs, m.touched, hasBirthtime)
                        /\ image_files' = LoadImages(m.fs)
                        /\ current_index' =
                              RelocateIndex(image_files', restored_file, old_index)
                   ELSE /\ last' = Done("undo", "fs_error", 0, restored_file, "none")
                        /\ streak' = NoStreak
                        /\ UNCHANGED <<fs, ctimeOrder, image_files, current_index>>

\* The key presses and clicks of the window.  move_to_selected passes the
\* row selected in the list of folders, which is a row of the list; the
\* call with the index one past the list is the caller of the
\* specification, which the handler answers by returning.
Next ==
    \/ PrevImage
    \/ NextImage
    \/ \E text \in EntryTexts : CreateFolder(text)
    \/ \E folder_index \in 0..Len(folders) : MoveImageToFolder(folder_index)
    \/ UndoMove

Spec == Init /\ [][Next]_vars

\* ------------------------------------------------- sanity of the model
TypeOK ==
    /\ \A p \in DOMAIN fs : ParentOk(fs, p)
    /\ ~hasBirthtime => SeqToSet(ctimeOrder) = TopDirs(fs)
    /\ ~hasBirthtime => Len(ctimeOrder) = Cardinality(TopDirs(fs))
    /\ SeqToSet(image_files) \subseteq ListDir(fs)

\* no call of shutil.move has a directory as its source and a destination
\* whose parent directory is missing, the one case that is not a rename
CopytreeNotNeeded ==
    /\ \A k \in 1..Len(undo_stack) :
          IsDir(fs, undo_stack[k][1]) => ParentOk(fs, undo_stack[k][2])
    /\ \A k \in 1..Len(folders), i \in 1..Len(image_files) :
          IsDir(fs, <<image_files[i]>>) => IsDir(fs, <<folders[k]>>)

\* =============================================================== claims
\* the handler of the step left the session and the filesystem as they were
NothingChanged ==
    UNCHANGED <<fs, ctimeOrder, image_files, current_index, folders, undo_stack>>

\* s without its entry at the Python index c
Without(s, c) == SubSeq(s, 1, c) \o SubSeq(s, c + 2, Len(s))

\* C1 (as claimed) -- a move that succeeds, followed at once by an undo that
\* succeeds, puts the file back at its source path, the image back into the
\* image list at its place among the others, the index on it, and leaves
\* the undo stack as it was before the move.
C1_RoundTrip ==
    [][ (last.op = "move" /\ last.outcome = "moved" /\
         last'.op = "undo" /\ last'.outcome = "restored") =>
           LET src == <<last.text>>
           IN  /\ src \in DOMAIN fs'
               /\ fs'[src] = pre.fs[src]
               /\ SelectSeq(image_files', LAMBDA x : InSeq(x, pre.image_files))
                     = pre.image_files
               /\ current_index' >= 0 /\ current_index' < Len(image_files')
               /\ image_files'[current_index' + 1] = last.text
               /\ undo_stack' = pre.undo_stack ]_vars

\* C2 -- whenever the image list is not empty, 0 <= current_index < its length.
C2_CursorInvariant ==
    image_files # <<>> => current_index >= 0 /\ current_index < Len(image_files)

\* a move of the last entry of a longer list: the index was adjusted
C2_Witness ==
    /\ last.op = "move" /\ last.outcome = "moved"
    /\ pre.current_index = Len(pre.image_files) - 1
    /\ image_files # <<>>
    /\ current_index = pre.current_index - 1

\* C3 (as claimed) -- a move that succeeds leaves the file at
\* folder[i]/s[c] and not at s[c], the record (destination, source) on top
\* of the undo stack, the image list s without its entry c, and the index
\* c, or c-1 if c was the last index, so that the image shown is the one
\* that followed (or the new last one, or none).
C3_SuccessfulMove ==
    [][ (last'.op = "move" /\ last'.outcome = "moved") =>
           LET s == image_files
               c == current_index
               src == <<s[c + 1]>>
               dst == <<folders[last'.index + 1], s[c + 1]>>
           IN  /\ c >= 0 /\ c < Len(s)
               /\ dst \in DOMAIN fs'
               /\ fs'[dst] = fs[src]
               /\ src \notin DOMAIN fs'
               /\ undo_stack' = Append(undo_stack, <<dst, src>>)
               /\ image_files' = Without(s, c)
               /\ current_index' = IF c < Len(s) - 1 THEN c ELSE c - 1
               /\ CurrentImage' = IF c < Len(s) - 1 THEN s[c + 2]
                                  ELSE IF Len(s) > 1 THEN s[c]
                                  ELSE <<>> ]_vars

\* C4 (as claimed) -- the answer "skip" removes the entry at the index
\* from the image list, pushes no undo record and changes no file.
C4_Skip ==
    [][ (last'.op = "move" /\ last'.decision = "skip") =>
           /\ image_files' = Without(image_files, current_index)
           /\ undo_stack' = undo_stack
           /\ UNCHANGED <<fs, ctimeOrder>> ]_vars

\* C5 -- a move of the only image left that succeeds empties the image
\* list, and no image is shown; an empty image list stays empty under
\* prev_image, next_image, move_image_to_folder and create_folder, and
\* becomes non-empty only by the rescan of an undo that succeeds.
C5_Completion ==
    [][ /\ (last'.op = "move" /\ last'.outcome = "moved" /\ Len(image_files) = 1) =>
              image_files' = <<>> /\ CurrentImage' = <<>>
        /\ (image_files = <<>> /\ last'.op \in {"prev", "next", "move", "create"}) =>
              image_files' = <<>> /\ CurrentImage' = <<>>
        /\ (image_files = <<>> /\ image_files' # <<>>) =>
              last'.op = "undo" /\ last'.outcome = "restored" ]_vars

\* the only image left was moved, and nothing is left to show
C5_Witness ==
    /\ last.op = "move" /\ last.outcome = "moved"
    /\ Len(pre.image_files) = 1
    /\ image_files = <<>>
    /\ CurrentImage = <<>>

\* C6 -- a step appends one record to the undo stack exactly if it is a
\* move that moved a file, removes the top record exactly if it is an undo
\* on a non-empty stack, and leaves the stack alone otherwise.
C6_UndoAccounting ==
    [][ LET gained == /\ Len(undo_stack') = Len(undo_stack) + 1
                      /\ SubSeq(undo_stack', 1, Len(undo_stack)) = undo_stack
            lost == /\ undo_stack # <<>>
                    /\ undo_stack' = SubSeq(undo_stack, 1, Len(undo_stack) - 1)
        IN  /\ gained <=> (last'.op = "move" /\ fs' # fs)
            /\ lost <=> (last'.op = "undo" /\ undo_stack # <<>>)
            /\ gained \/ lost \/ undo_stack' = undo_stack ]_vars

\* an undo took the top record off a stack of two or more
C6_Witness ==
    /\ last.op = "undo"
    /\ last.outcome \in {"restored", "fs_error"}
    /\ undo_stack # <<>>

\* C7 -- next_image adds 1 to the index if it is below the last one,
\* prev_image takes 1 off if it is above 0, otherwise neither changes it;
\* both leave the image list, the folder list, the undo stack and the
\* filesystem alone and the index inside a non-empty list.
C7_Navigation ==
    [][ /\ last'.op = "next" =>
              current_index' = IF image_files # <<>> /\ current_index < Len(image_files) - 1
                               THEN current_index + 1 ELSE current_index
        /\ last'.op = "prev" =>
              current_index' = IF image_files # <<>> /\ current_index > 0
                               THEN current_index - 1 ELSE current_index
        /\ last'.op \in {"next", "prev"} =>
              /\ UNCHANGED <<fs, ctimeOrder, image_files, folders, undo_stack>>
              /\ image_files # <<>> =>
                    current_index' >= 0 /\ current_index' <= Len(image_files) - 1 ]_vars

\* next_image was called on the last image of two or more, and did nothing
C7_Witness ==
    /\ last.op = "next"
    /\ Len(image_files) >= 2
    /\ current_index = Len(image_files) - 1

\* C8 -- a move that finds no image, an index past the folder list, the
\* answer "cancel", or whose shutil.move fails, changes nothing.
C8_FailedMove ==
    [][ (/\ last'.op = "move"
         /\ \/ image_files = <<>>
            \/ last'.index >= Len(folders)
            \/ last'.decision = "cancel"
            \/ last'.outcome = "fs_error"
            \/ last'.decision \in {"none", "overwrite"} /\ fs' = fs)
        => NothingChanged ]_vars

\* the dialog was answered "cancel"
C8_Witness ==
    /\ last.op = "move"
    /\ last.decision = "cancel"
    /\ last.outcome = "cancel"

\* C9 -- an undo on an empty stack changes nothing; an undo whose
\* shutil.move fails has removed the top record and changed neither the
\* image list, the index nor the filesystem.
C9_FailedUndo ==
    [][ last'.op = "undo" =>
           /\ undo_stack = <<>> => last'.outcome = "nothing" /\ NothingChanged
           /\ (undo_stack # <<>> /\ (fs' = fs \/ last'.outcome = "fs_error")) =>
                 /\ last'.outcome = "fs_error"
                 /\ undo_stack' = SubSeq(undo_stack, 1, Len(undo_stack) - 1)
                 /\ UNCHANGED <<fs, ctimeOrder, image_files, current_index, folders>> ]_vars

\* an undo failed and its record is gone
C9_Witness ==
    /\ last.op = "undo"
    /\ last.outcome = "fs_error"
    /\ ~InSeq(<<<<cats, b_JPG>>, <<b_JPG>>>>, undo_stack)
    /\ <<cats, b_JPG>> \in DOMAIN fs

\* the directories of work_dir that load_folders lists
ListedFolders(f) == {n \in ListDir(f) : IsDir(f, <<n>>) /\ n[1] # 46}

\* what create_folder(text) does when nothing of the stripped name is in `blocking`
CreateFolderContract(blocking(_, _)) ==
    last'.op = "create" =>
        LET name == Strip(last'.text)
        IN  /\ name = <<>> => last'.outcome = "validation" /\ NothingChanged
            /\ (name # <<>> /\ blocking(fs, <<name>>)) =>
                  last'.outcome = "exists" /\ NothingChanged
            /\ (name # <<>> /\ ~blocking(fs, <<name>>) /\ last'.outcome # "fs_error") =>
                  /\ DOMAIN fs' = DOMAIN fs \cup {<<name>>}
                  /\ fs'[<<name>>].kind = "dir"
                  /\ \A p \in DOMAIN fs : fs'[p] = fs[p]
                  /\ SeqToSet(folders') = ListedFolders(fs')
                  /\ Len(folders') = Cardinality(ListedFolders(fs'))
            /\ last'.outcome = "fs_error" => NothingChanged
            /\ UNCHANGED <<image_files, current_index, undo_stack>>

\* C10 (as claimed) -- create_folder refuses an empty stripped name and the
\* name of an existing directory, changing nothing; otherwise it creates
\* the directory and rebuilds the folder list; it never changes the image
\* list, the index or the undo stack.
C10_Original == [][CreateFolderContract(IsDir)]_vars

\* C10 (amended) -- the same, create_folder refusing the name of anything
\* that exists in work_dir, a file as well as a directory.
C10_CreateFolder == [][CreateFolderContract(Exists)]_vars

\* create_folder refused the name of a file
C10_Witness ==
    /\ last.op = "create"
    /\ last.outcome = "exists"
    /\ Strip(last.text) # last.text
    /\ <<Strip(last.text)>> \in DOMAIN fs
    /\ fs[<<Strip(last.text)>>].kind = "file"

\* the entries of work_dir that are regular files with the extension of an image
ImageFilesOf(f) == {n \in ListDir(f) : f[<<n>>].kind = "file" /\ IsImageName(n)}

\* the image list is the one load_images has just built: at startup and
\* after the rescan of an undo that succeeded
FreshImageList ==
    last.op = "init" \/ (last.op = "undo" /\ last.outcome = "restored")

\* C11 (as claimed) -- the image list load_images builds is in ascending
\* order of the names and holds exactly the regular files of work_dir whose
\* lower-cased name ends in an image extension, whatever else work_dir
\* holds; load_images leaves the index at 0.
C11_ListImages ==
    /\ FreshImageList =>
          /\ \A i, j \in 1..Len(image_files) :
                i < j => StrLess(image_files[i], image_files[j])
          /\ SeqToSet(image_files) = ImageFilesOf(fs)
    /\ last.op = "init" => current_index = 0

\* the folder list is the one load_folders has just built: at startup and
\* after create_folder made a directory
FreshFolderList ==
    last.op = "init" \/ (last.op = "create" /\ last.outcome = "created")

\* C12 (as claimed) -- the folder list load_folders builds holds exactly the
\* directories of work_dir whose name does not start with a dot, the one
\* created earlier before the one created later, on hosts that have
\* st_birthtime and on hosts where st_ctime is read instead.
C12_ListFolders ==
    FreshFolderList =>
        /\ SeqToSet(folders) = ListedFolders(fs)
        /\ Len(folders) = Cardinality(ListedFolders(fs))
        /\ \A i, j \in 1..Len(folders) :
              i < j => fs[<<folders[i]>>].id < fs[<<folders[j]>>].id

\* the same on the hosts that have st_birthtime
C12_OnBirthtimeHosts == hasBirthtime => C12_ListFolders

\* C13 (as claimed) -- an undo that succeeds, in whatever state it is
\* called, takes exactly the top record (after, before) off the stack;
\* what was at `after` is then at `before` and nothing is at `after`; the
\* image list is the one a rescan gives, and the index is on the entry
\* named basename(before), which is the image shown.
C13_SuccessfulUndo ==
    [][ (last'.op = "undo" /\ last'.outcome = "restored") =>
           LET after == Last(undo_stack)[1]
               before == Last(undo_stack)[2]
           IN  /\ undo_stack' = SubSeq(undo_stack, 1, Len(undo_stack) - 1)
               /\ before \in DOMAIN fs'
               /\ fs'[before] = fs[after]
               /\ after \notin DOMAIN fs'
               /\ image_files' = LoadImages(fs')
               /\ current_index' >= 0 /\ current_index' < Len(image_files')
               /\ CurrentImage' = Last(before) ]_vars

\* C14 (as claimed) -- after k >= 1 moves that succeeded in a row, the
\* undos that follow each find a record; the i-th of them restores the
\* file of the move k-i+1 (the last one moved first), and after the k-th
\* every file moved is at its source path again and in the image list.
C14_LifoUndo ==
    LET k == Len(streak.moved)
        i == streak.undone
        Back(j) == /\ <<streak.moved[j].name>> \in DOMAIN fs
                   /\ fs[<<streak.moved[j].name>>] = streak.moved[j].node
    IN  /\ Len(undo_stack) >= k - i
        /\ i > 0 => /\ last.op = "undo" /\ last.outcome = "restored"
                    /\ last.text = streak.moved[k - i + 1].name
                    /\ Back(k - i + 1)
        /\ (k > 0 /\ i = k) =>
              \A j \in 1..k : Back(j) /\ InSeq(streak.moved[j].name, image_files)

\* C15 (as claimed) -- the undo stack never holds more than one record.
C15_SingleLevel == Len(undo_stack) <= 1

\* C15 (amended) -- the undo stack is not limited to one record: a move
\* that succeeds puts its record on top of the records that are on the
\* stack and keeps every one of them.
C15_MultiLevel ==
    [][ (last'.op = "move" /\ last'.outcome = "moved") =>
           /\ Len(undo_stack') = Len(undo_stack) + 1
           /\ \A k \in 1..Len(undo_stack) : undo_stack'[k] = undo_stack[k]
           /\ Last(undo_stack')[2] = <<last'.text>> ]_vars

\* the second of two moves in a row: two records or more are on the stack
C15_Witness ==
    /\ last.op = "move" /\ last.outcome = "moved"
    /\ Len(streak.moved) >= 2
    /\ Len(undo_stack) >= 2

\* C16 (as claimed) -- after every handler the image list equals what
\* load_images would build from the filesystem and the folder list what
\* load_folders would build.
C16_CacheCoherence ==
    /\ image_files = LoadImages(fs)
    /\ folders = LoadFolders(fs, ctimeOrder, hasBirthtime)

\* C17 (as claimed) -- a move that succeeds, followed at once by an undo
\* that succeeds, leaves every path below work_dir as it was before the
\* move, the content of the destination folder included, also when the
\* move overwrote a file there.
C17_UndoRestoresAll ==
    [][ (last.op = "move" /\ last.outcome = "moved" /\
         last'.op = "undo" /\ last'.outcome = "restored") => fs' = pre.fs ]_vars

\* C17 (amended) -- such a move and undo leave every path below work_dir
\* as it was before the move if the move met nothing at its destination;
\* if it overwrote what was there, that is not there again after the undo:
\* nothing is at the destination path.
C17_UndoOfMove ==
    [][ (last.op = "move" /\ last.outcome = "moved" /\
         last'.op = "undo" /\ last'.outcome = "restored") =>
           LET dst == <<pre.folders[last.index + 1], last.text>>
           IN  /\ last.decision = "none" => fs' = pre.fs
               /\ last.decision = "overwrite" =>
                     dst \in DOMAIN pre.fs /\ dst \notin DOMAIN fs' ]_vars

\* a.png was moved onto the file cats/a.png and brought back by the undo:
\* the file that was at cats/a.png is gone
C17_Witness ==
    /\ last.op = "undo" /\ last.outcome = "restored"
    /\ streak.moved = <<[name |-> a_png, node |-> InitFs[<<a_png>>]]>>
    /\ streak.undone = 1
    /\ fs = [p \in DOMAIN InitFs \ {<<cats, a_png>>} |-> InitFs[p]]

\* C18 (as claimed) -- for every record (after, before) on the undo stack a
\* file is at `after` and nothing is at `before`; create_folder creates no
\* directory at the `before` of a record.
C18_RecordsValid ==
    \A k \in 1..Len(undo_stack) :
        LET after == undo_stack[k][1]
            before == undo_stack[k][2]
        IN  /\ after \in DOMAIN fs
            /\ fs[after].kind = "file"
            /\ before \notin DOMAIN fs

\* the part of it about create_folder alone
C18_CreateFolderAvoidsRecords ==
    [][ (last'.op = "create" /\ last'.outcome = "created") =>
           \A k \in 1..Len(undo_stack) :
               undo_stack[k][2] \notin DOMAIN fs' ]_vars

\* C19 (as claimed) -- a folder that is at an index of the folder list is
\* at that index ever after, so that a digit key reaches the same folder
\* during the whole session; create_folder puts the new folder behind all
\* folders that were listed.
C19_StableShortcuts ==
    [][ /\ Len(folders') >= Len(folders)
        /\ \A k \in 1..Len(folders) : folders'[k] = folders[k]
        /\ (last'.op = "create" /\ last'.outcome = "created") =>
              folders' = Append(folders, Strip(last'.text)) ]_vars

====
